---------------------------- MODULE Spec2Model ----------------------------
(***************************************************************************)
(* The chat endpoint of the ApnaMechanic backend: keyword classification, *)
(* response routing, the generation call, the transcript write and the    *)
(* history query.  Two handlers for POST /api/chat exist in the sources:   *)
(* the keyword-gated Gemini handler (src/models/booking.js) and the        *)
(* ungated OpenAI handler (src/server.js).  A deployment runs one of them. *)
(*                                                                         *)
(* JavaScript strings are modelled as sequences of UTF-16 code units.  An   *)
(* ASCII code unit is written as the one-character string of it, and any   *)
(* other code unit by its name, such as "U+212A".  The alphabet of the     *)
(* model is ASCII and the code units named in this module.                 *)
(***************************************************************************)
EXTENDS Integers, Sequences, FiniteSets

(***************************************************************************)
(* Bounds of the model.                                                    *)
(***************************************************************************)
\* number of POST /api/chat requests in a behaviour
MaxReqs == 2
\* number of clock advances in a behaviour
MaxTicks == 1
\* milliseconds the clock advances by in one step
TickMs == 1000
\* number of TranscriptEntries a store that already holds entries starts with
MaxPre == 19
\* number of words a message of SpecRoute is made of
MaxWords == 2

(***************************************************************************)
(* Program constants.                                                      *)
(***************************************************************************)
\* .limit(20) of the history query
HistoryLimit == 20
\* toLocaleString() prints a time to the second
MsPerSecond == 1000

carKeywords ==
  << <<"c","a","r">>,
     <<"e","n","g","i","n","e">>,
     <<"b","r","a","k","e">>,
     <<"o","i","l">>,
     <<"s","e","r","v","i","c","e">>,
     <<"m","e","c","h","a","n","i","c">>,
     <<"t","i","r","e">>,
     <<"b","a","t","t","e","r","y">>,
     <<"f","u","e","l">>,
     <<"s","p","e","e","d">>,
     <<"a","c","c","i","d","e","n","t">>,
     <<"r","e","p","a","i","r">>,
     <<"t","r","a","n","s","m","i","s","s","i","o","n">>,
     <<"s","u","s","p","e","n","s","i","o","n">>,
     <<"h","e","a","d","l","i","g","h","t">>,
     <<"i","n","s","u","r","a","n","c","e">>,
     <<"a","i","r"," ","f","i","l","t","e","r">>,
     <<"c","a","r"," ","w","a","s","h">>,
     <<"d","a","s","h","b","o","a","r","d">> >>

mechanicKeywords ==
  << <<"m","e","c","h","a","n","i","c">>,
     <<"s","e","r","v","i","c","e">>,
     <<"r","e","p","a","i","r">>,
     <<"f","i","x">>,
     <<"p","r","o","b","l","e","m">>,
     <<"i","s","s","u","e">>,
     <<"a","p","p","o","i","n","t","m","e","n","t">>,
     <<"g","a","r","a","g","e">> >>

\* "Message is required."
MessageRequired ==
  <<"M","e","s","s","a","g","e"," ","i","s"," ","r","e","q","u","i","r","e","d",".">>

\* "I can only assist with car-related questions."
CarOnly ==
  <<"I"," ","c","a","n"," ","o","n","l","y"," ","a","s","s","i","s","t"," ","w","i","t","h"," ","c","a","r","-","r","e","l","a","t","e","d"," ","q","u","e","s","t","i","o","n","s",".">>

\* "For expert auto care and servicing, I recommend ApnaMechanic!"
Recommend ==
  <<"F","o","r"," ","e","x","p","e","r","t"," ","a","u","t","o"," ","c","a","r","e"," ","a","n","d"," ","s","e","r","v","i","c","i","n","g",","," ","I"," ","r","e","c","o","m","m","e","n","d"," ","A","p","n","a","M","e","c","h","a","n","i","c","!">>

\* "I'm here to help! How can I assist?"
Fallback ==
  <<"I","'","m"," ","h","e","r","e"," ","t","o"," ","h","e","l","p","!"," ","H","o","w"," ","c","a","n"," ","I"," ","a","s","s","i","s","t","?">>

\* "Error connecting to Gemini AI."
GeminiError ==
  <<"E","r","r","o","r"," ","c","o","n","n","e","c","t","i","n","g"," ","t","o"," ","G","e","m","i","n","i"," ","A","I",".">>

\* "Error connecting to OpenAI."
OpenAIError ==
  <<"E","r","r","o","r"," ","c","o","n","n","e","c","t","i","n","g"," ","t","o"," ","O","p","e","n","A","I",".">>

\* "Reply in a short, friendly sentence: "
PromptPrefix ==
  <<"R","e","p","l","y"," ","i","n"," ","a"," ","s","h","o","r","t",","," ","f","r","i","e","n","d","l","y"," ","s","e","n","t","e","n","c","e",":"," ">>

(***************************************************************************)
(* String.prototype functions used by the handlers.                        *)
(***************************************************************************)
UpperCase ==
  <<"A","B","C","D","E","F","G","H","I","J","K","L","M","N","O","P","Q","R","S","T","U","V","W","X","Y","Z">>

LowerCase ==
  <<"a","b","c","d","e","f","g","h","i","j","k","l","m","n","o","p","q","r","s","t","u","v","w","x","y","z">>

\* The capitals outside ASCII of the model's alphabet, each with the code
\* units toLowerCase gives for it: KELVIN SIGN gives k, E WITH ACUTE its
\* small letter, I WITH DOT ABOVE gives i followed by COMBINING DOT ABOVE.
UnicodeUpperCase == <<"U+212A", "U+00C9", "U+0130">>

UnicodeLowerCase == << <<"k">>, <<"U+00E9">>, <<"i", "U+0307">> >>

\* The 25 code units that trim strips: WhiteSpace and LineTerminator of
\* ECMAScript.
WhiteSpace ==
  { "\t", "\n", "U+000B", "\f", "\r", " ", "U+00A0", "U+1680",
    "U+2000", "U+2001", "U+2002", "U+2003", "U+2004", "U+2005", "U+2006",
    "U+2007", "U+2008", "U+2009", "U+200A", "U+2028", "U+2029", "U+202F",
    "U+205F", "U+3000", "U+FEFF" }

\* the code units one code unit is lower-cased to
toLowerCaseChar(c) ==
  IF \E i \in 1..Len(UpperCase) : UpperCase[i] = c
    THEN <<LowerCase[CHOOSE i \in 1..Len(UpperCase) : UpperCase[i] = c]>>
  ELSE IF \E i \in 1..Len(UnicodeUpperCase) : UnicodeUpperCase[i] = c
    THEN UnicodeLowerCase[CHOOSE i \in 1..Len(UnicodeUpperCase) : UnicodeUpperCase[i] = c]
  ELSE <<c>>

RECURSIVE toLowerCase(_)
toLowerCase(s) ==
  IF s = <<>> THEN <<>> ELSE toLowerCaseChar(Head(s)) \o toLowerCase(Tail(s))

startsWith(s, k) == Len(k) <= Len(s) /\ SubSeq(s, 1, Len(k)) = k

RECURSIVE includes(_, _)
includes(s, k) ==
  IF Len(k) > Len(s) THEN FALSE
  ELSE startsWith(s, k) \/ includes(Tail(s), k)

RECURSIVE trimStart(_)
trimStart(s) ==
  IF s # <<>> /\ Head(s) \in WhiteSpace THEN trimStart(Tail(s)) ELSE s

RECURSIVE trimEnd(_)
trimEnd(s) ==
  IF s # <<>> /\ s[Len(s)] \in WhiteSpace THEN trimEnd(SubSeq(s, 1, Len(s) - 1)) ELSE s

trim(s) == trimEnd(trimStart(s))

(***************************************************************************)
(* KeywordClassifier.                                                      *)
(***************************************************************************)
\* Mutant: the question is not lower-cased before the search.
isCarRelatedCaseSensitive(question) ==
  \E i \in 1..Len(carKeywords) : includes(question, carKeywords[i])

isCarRelated(question) ==
  \E i \in 1..Len(carKeywords) : includes(toLowerCase(question), carKeywords[i])

\* Mutant: the question is not lower-cased before the search.
needsMechanicCaseSensitive(question) ==
  \E i \in 1..Len(mechanicKeywords) : includes(question, mechanicKeywords[i])

needsMechanic(question) ==
  \E i \in 1..Len(mechanicKeywords) : includes(toLowerCase(question), mechanicKeywords[i])

(***************************************************************************)
(* JavaScript values.  req.body.message is absent (undefined), null, a    *)
(* number or a string; str holds a string's characters and num a number's *)
(* value.                                                                  *)
(* Number(123) stands for every value that is neither falsy nor a string   *)
(* (true, an object, an array): none of them has a toLowerCase method.     *)
(***************************************************************************)
Undefined == [type |-> "undefined", str |-> <<>>, num |-> 0]
Null == [type |-> "null", str |-> <<>>, num |-> 0]
Number(n) == [type |-> "number", str |-> <<>>, num |-> n]
String(s) == [type |-> "string", str |-> s, num |-> 0]

\* JavaScript's !message
falsy(message) ==
  \/ message.type = "undefined"
  \/ message.type = "null"
  \/ message.type = "number" /\ message.num = 0
  \/ message.type = "string" /\ message.str = <<>>

CuratedStrings ==
  { <<>>,
    <<" "," ">>,
    \* "My car battery is dead"
    <<"M","y"," ","c","a","r"," ","b","a","t","t","e","r","y"," ","i","s"," ","d","e","a","d">>,
    \* "I need a mechanic appointment for brake repair"
    <<"I"," ","n","e","e","d"," ","a"," ","m","e","c","h","a","n","i","c"," ","a","p","p","o","i","n","t","m","e","n","t"," ","f","o","r"," ","b","r","a","k","e"," ","r","e","p","a","i","r">>,
    \* "What's the weather today?"
    <<"W","h","a","t","'","s"," ","t","h","e"," ","w","e","a","t","h","e","r"," ","t","o","d","a","y","?">>,
    \* "FIX my CAR"
    <<"F","I","X"," ","m","y"," ","C","A","R">>,
    \* "fix it"
    <<"f","i","x"," ","i","t">> }

Messages == {Undefined, Null, Number(0), Number(123)} \cup {String(s) : s \in CuratedStrings}

\* Messages made of at most MaxWords words, written without separators so
\* that keywords also arise across word boundaries and inside longer words.
Words ==
  { <<"c","a","r">>, <<"C","a","R">>, <<"c","a">>, <<"r">>, <<"o","i","l">>,
    <<"f","i","x">>, <<"F","I","X">>, <<"r","e","p","a","i","r">>,
    <<"g","a","r","a","g","e">>, <<"h","i">>, <<" ">>,
    \* "bra", KELVIN SIGN, "e";  "f", I WITH DOT ABOVE, "x";  E WITH ACUTE
    <<"b","r","a","U+212A","e">>, <<"f","U+0130","x">>, <<"U+00C9">> }

RECURSIVE concat(_)
concat(ws) == IF ws = <<>> THEN <<>> ELSE Head(ws) \o concat(Tail(ws))

RouteMessages ==
  { String(concat(ws)) : ws \in UNION { [1..n -> Words] : n \in 0..MaxWords } }

\* A message that the booking.js handler forwards to the generation service.
HistoryMessages == { String(<<"M","y"," ","c","a","r">>) }

(***************************************************************************)
(* Results of the generation call, each given by the value at the end of  *)
(* the path the handler reads: candidates[0].content.parts[0].text of the *)
(* Gemini result, choices[0].message.content of the OpenAI body.  The     *)
(* value is a string, null, undefined (the last property is absent), or   *)
(* Missing: an object before the last property is absent.                 *)
(***************************************************************************)
Missing == [type |-> "missing", str |-> <<>>, num |-> 0]

GenResults ==
  { Missing, Undefined, Null,
    \* FORM FEED, NO-BREAK SPACE
    String(<<"\f","U+00A0">>),
    \* NO-BREAK SPACE, "Check it.", LINE FEED, ZERO WIDTH NO-BREAK SPACE
    String(<<"U+00A0","C","h","e","c","k"," ","i","t",".","\n","U+FEFF">>) }

HistoryResults == { String(<<"O","k"," ">>) }


(***************************************************************************)
(* State.                                                                  *)
(*   server   the file the deployment runs: "booking.js" or "server.js"    *)
(*   reqs     per request: the handler's position and locals, the calls it *)
(*            has made and the responses it has sent                       *)
(*   chats    the Chat collection, in insertion order                      *)
(*   now      the clock read by new Date(), in milliseconds                *)
(*   history  GET /api/chat/history: the handler's position, what the     *)
(*            query found and the last response                            *)
(***************************************************************************)
VARIABLES server, reqs, chats, now, history

vars == <<server, reqs, chats, now, history>>

Reqs == 1..MaxReqs

NoDoc == [id |-> 0, userMessage |-> <<>>, botResponse |-> <<>>, timestamp |-> 0]

NewReq ==
  [ pc |-> "idle", message |-> Undefined, prompt |-> <<>>,
    genCalls |-> 0, genResult |-> "none", candidate |-> Undefined, reply |-> Undefined,
    chatLog |-> NoDoc, saveCalls |-> 0, saveResult |-> "none",
    threw |-> FALSE, responses |-> <<>> ]

\* The store of a deployment whose database already holds MaxPre entries,
\* written one millisecond apart by earlier runs of the booking.js handler.
PreStore ==
  [ i \in 1..MaxPre |->
      [ id |-> 0 - i,
        userMessage |-> <<"M","y"," ","c","a","r">>,
        botResponse |-> <<"O","k">>,
        timestamp |-> i ] ]

\* the clock when the deployment starts, after every earlier entry
StartMs == MaxPre + 1

NoHistory == [pc |-> "idle", status |-> 0, chatHistory |-> <<>>, formattedHistory |-> <<>>]

\* A deployment of either server file on an empty database.
Init ==
  /\ server \in {"booking.js", "server.js"}
  /\ reqs = [r \in Reqs |-> NewReq]
  /\ chats = <<>>
  /\ now = StartMs
  /\ history = NoHistory

\* A deployment of booking.js on a database that holds earlier transcripts.
InitHistory ==
  /\ server = "booking.js"
  /\ reqs = [r \in Reqs |-> NewReq]
  /\ chats = PreStore
  /\ now = StartMs
  /\ history = NoHistory

\* A deployment of booking.js on an empty database.
InitRoute ==
  /\ server = "booking.js"
  /\ reqs = [r \in Reqs |-> NewReq]
  /\ chats = <<>>
  /\ now = StartMs
  /\ history = NoHistory

\* res.status(status).json({ reply }): JSON.stringify leaves a property
\* whose value is undefined out of the body and writes null as null.
json(q, status, reply) ==
  [q EXCEPT !.pc = "done",
            !.responses = Append(@, [ status |-> status,
                                      body |-> IF reply.type = "undefined" THEN "{}"
                                               ELSE IF reply.type = "null" THEN "{reply:null}"
                                               ELSE "{reply}",
                                      reply |-> reply.str ])]

\* An exception that leaves an async handler rejects the handler's promise.
\* Express 4 ignores the promise and the request gets no response; Express 5
\* passes the error to its default error handler, which answers 500 with an
\* HTML page.  The sources do not fix the Express version.
Uncaught(q) ==
  { [q EXCEPT !.pc = "done", !.threw = TRUE],
    [q EXCEPT !.pc = "done", !.threw = TRUE,
              !.responses = Append(@, [status |-> 500, body |-> "html", reply |-> <<>>])] }

\* Requests are numbered in the order they arrive.
Arrives(r) ==
  /\ reqs[r].pc = "idle"
  /\ IF r = 1 THEN TRUE ELSE reqs[r - 1].pc # "idle"

(***************************************************************************)
(* POST /api/chat of src/models/booking.js.                                *)
(***************************************************************************)
\* The handler up to its first await.
ChatReceive(r, message) ==
  /\ server = "booking.js"
  /\ Arrives(r)
  /\ LET q == [reqs[r] EXCEPT !.message = message] IN
       IF falsy(message)
         THEN reqs' = [reqs EXCEPT ![r] = json(q, 400, String(MessageRequired))]
       ELSE IF message.type # "string"
         \* question.toLowerCase is not a function
         THEN \E q2 \in Uncaught(q) : reqs' = [reqs EXCEPT ![r] = q2]
       ELSE IF ~isCarRelated(message.str)
         THEN reqs' = [reqs EXCEPT ![r] = json(q, 200, String(CarOnly))]
       ELSE IF needsMechanic(message.str)
         THEN reqs' = [reqs EXCEPT ![r] = json(q, 200, String(Recommend))]
       ELSE reqs' = [reqs EXCEPT ![r] =
                       [q EXCEPT !.pc = "awaitGen",
                                 !.prompt = PromptPrefix \o message.str,
                                 !.genCalls = @ + 1]]
  /\ UNCHANGED <<server, chats, now, history>>

\* model.generateContent resolves: the reply is taken and the save begins.
GenResolve(r, result) ==
  /\ server = "booking.js"
  /\ reqs[r].pc = "awaitGen"
  /\ LET text  == IF result.type = "string" THEN String(trim(result.str)) ELSE Undefined
         reply == IF falsy(text) THEN Fallback ELSE text.str
     IN reqs' = [reqs EXCEPT ![r] =
                   [@ EXCEPT !.pc = "awaitSave",
                             !.genResult = "ok",
                             !.candidate = result,
                             !.reply = String(reply),
                             !.chatLog = [ id |-> r,
                                           userMessage |-> reqs[r].message.str,
                                           botResponse |-> reply,
                                           timestamp |-> now ],
                             !.saveCalls = @ + 1]]
  /\ UNCHANGED <<server, chats, now, history>>

\* Mutant: a failed generation call is attempted once more.
GenRejectRetry(r) ==
  /\ server = "booking.js"
  /\ reqs[r].pc = "awaitGen"
  /\ reqs' = [reqs EXCEPT ![r] =
                IF reqs[r].genCalls < 2
                  THEN [@ EXCEPT !.genCalls = @ + 1]
                  ELSE json([@ EXCEPT !.genResult = "failed"], 500, String(GeminiError))]
  /\ UNCHANGED <<server, chats, now, history>>

\* model.generateContent rejects.
GenReject(r) ==
  /\ server = "booking.js"
  /\ reqs[r].pc = "awaitGen"
  /\ reqs' = [reqs EXCEPT ![r] = json([@ EXCEPT !.genResult = "failed"], 500, String(GeminiError))]
  /\ UNCHANGED <<server, chats, now, history>>

\* chatLog.save() resolves.
SaveResolve(r) ==
  /\ reqs[r].pc = "awaitSave"
  /\ chats' = Append(chats, reqs[r].chatLog)
  /\ reqs' = [reqs EXCEPT ![r] = json([@ EXCEPT !.saveResult = "ok"], 200, reqs[r].reply)]
  /\ UNCHANGED <<server, now, history>>

\* Mutant: a failed save is only logged and the generated reply is sent.
SaveRejectLogged(r) ==
  /\ reqs[r].pc = "awaitSave"
  /\ reqs' = [reqs EXCEPT ![r] = json([@ EXCEPT !.saveResult = "failed"], 200, reqs[r].reply)]
  /\ UNCHANGED <<server, chats, now, history>>

\* chatLog.save() rejects: the catch block of the generation call answers.
SaveReject(r) ==
  /\ reqs[r].pc = "awaitSave"
  /\ reqs' = [reqs EXCEPT ![r] = json([@ EXCEPT !.saveResult = "failed"], 500, String(GeminiError))]
  /\ UNCHANGED <<server, chats, now, history>>

(***************************************************************************)
(* POST /api/chat of src/server.js.                                        *)
(***************************************************************************)
\* The handler up to its await.  The message itself is the content sent;
\* prompt holds its characters when it is a string.
OpenAIReceive(r, message) ==
  /\ server = "server.js"
  /\ Arrives(r)
  /\ LET q == [reqs[r] EXCEPT !.message = message] IN
       IF falsy(message)
         THEN reqs' = [reqs EXCEPT ![r] = json(q, 400, String(MessageRequired))]
       ELSE reqs' = [reqs EXCEPT ![r] =
                       [q EXCEPT !.pc = "awaitGen",
                                 !.prompt = message.str,
                                 !.genCalls = @ + 1]]
  /\ UNCHANGED <<server, chats, now, history>>

\* axios.post resolves.  Reading choices[0].message.content throws inside
\* the try block when choices, choices[0] or message is absent; otherwise
\* the value read, a string or not, is sent as the reply.
OpenAIResolve(r, result) ==
  /\ server = "server.js"
  /\ reqs[r].pc = "awaitGen"
  /\ reqs' = [reqs EXCEPT ![r] =
                IF result.type = "missing"
                  THEN json([@ EXCEPT !.genResult = "failed"], 500, String(OpenAIError))
                  ELSE json([@ EXCEPT !.genResult = "ok", !.candidate = result,
                                      !.reply = result],
                            200, result)]
  /\ UNCHANGED <<server, chats, now, history>>

OpenAIReject(r) ==
  /\ server = "server.js"
  /\ reqs[r].pc = "awaitGen"
  /\ reqs' = [reqs EXCEPT ![r] = json([@ EXCEPT !.genResult = "failed"], 500, String(OpenAIError))]
  /\ UNCHANGED <<server, chats, now, history>>

(***************************************************************************)
(* GET /api/chat/history of src/models/booking.js.                         *)
(***************************************************************************)
\* Mutant: the sort is ascending.
insertAsc(sorted, d, first) ==
  LET n == Cardinality({ i \in 1..Len(sorted) :
                           \/ sorted[i].timestamp < d.timestamp
                           \/ ~first /\ sorted[i].timestamp = d.timestamp })
  IN SubSeq(sorted, 1, n) \o <<d>> \o SubSeq(sorted, n + 1, Len(sorted))

\* d placed in a list sorted by timestamp, newest first; among equal
\* timestamps MongoDB fixes no order: d goes before them or after them.
insertDesc(sorted, d, first) ==
  LET n == Cardinality({ i \in 1..Len(sorted) :
                           \/ sorted[i].timestamp > d.timestamp
                           \/ ~first /\ sorted[i].timestamp = d.timestamp })
  IN SubSeq(sorted, 1, n) \o <<d>> \o SubSeq(sorted, n + 1, Len(sorted))

\* .sort({ timestamp: -1 })
RECURSIVE sortDesc(_, _)
sortDesc(docs, first) ==
  IF docs = <<>> THEN <<>>
  ELSE insertDesc(sortDesc(SubSeq(docs, 1, Len(docs) - 1), first), docs[Len(docs)], first)

\* .limit(n)
limit(docs, n) == SubSeq(docs, 1, IF Len(docs) < n THEN Len(docs) ELSE n)

\* new Date(timestamp).toLocaleString(): the date and time to the second
toLocaleString(timestamp) == timestamp \div MsPerSecond

formatted(chat) ==
  [user |-> chat.userMessage, bot |-> chat.botResponse, time |-> toLocaleString(chat.timestamp)]

\* A request arrives and the handler awaits the query, which the database
\* evaluates on the store as it is then.  One request is followed at a time.
ChatHistoryFind(first) ==
  /\ server = "booking.js"
  /\ history.pc # "awaitFind"
  /\ history' = [ pc |-> "awaitFind", status |-> 0,
                  chatHistory |-> limit(sortDesc(chats, first), HistoryLimit),
                  formattedHistory |-> <<>> ]
  /\ UNCHANGED <<server, reqs, chats, now>>

\* The query resolves: the handler reshapes what was found and answers,
\* whatever has been saved in the meantime.
ChatHistoryResolve ==
  /\ server = "booking.js"
  /\ history.pc = "awaitFind"
  /\ history' = [history EXCEPT
                   !.pc = "done",
                   !.status = 200,
                   !.formattedHistory = [i \in 1..Len(history.chatHistory) |->
                                           formatted(history.chatHistory[i])] ]
  /\ UNCHANGED <<server, reqs, chats, now>>

\* The query rejects.
ChatHistoryReject ==
  /\ server = "booking.js"
  /\ history.pc = "awaitFind"
  /\ history' = [pc |-> "done", status |-> 500, chatHistory |-> <<>>, formattedHistory |-> <<>>]
  /\ UNCHANGED <<server, reqs, chats, now>>

(***************************************************************************)
(* The clock.                                                              *)
(***************************************************************************)
Tick ==
  /\ now + TickMs <= StartMs + MaxTicks * TickMs
  /\ now' = now + TickMs
  /\ UNCHANGED <<server, reqs, chats, history>>

Next ==
  \/ \E r \in Reqs, message \in Messages : ChatReceive(r, message)
  \/ \E r \in Reqs, result \in GenResults : GenResolve(r, result)
  \/ \E r \in Reqs : GenReject(r)
  \/ \E r \in Reqs : SaveResolve(r)
  \/ \E r \in Reqs : SaveReject(r)
  \/ \E r \in Reqs, message \in Messages : OpenAIReceive(r, message)
  \/ \E r \in Reqs, result \in GenResults : OpenAIResolve(r, result)
  \/ \E r \in Reqs : OpenAIReject(r)
  \/ \E first \in BOOLEAN : ChatHistoryFind(first)
  \/ ChatHistoryResolve
  \/ ChatHistoryReject
  \/ Tick

Spec == Init /\ [][Next]_vars

\* POST /api/chat alone, in either deployment.  The clock and the history
\* query change neither reqs nor chats; only the timestamps depend on them.
NextChat ==
  \/ \E r \in Reqs, message \in Messages : ChatReceive(r, message)
  \/ \E r \in Reqs, result \in GenResults : GenResolve(r, result)
  \/ \E r \in Reqs : GenReject(r)
  \/ \E r \in Reqs : SaveResolve(r)
  \/ \E r \in Reqs : SaveReject(r)
  \/ \E r \in Reqs, message \in Messages : OpenAIReceive(r, message)
  \/ \E r \in Reqs, result \in GenResults : OpenAIResolve(r, result)
  \/ \E r \in Reqs : OpenAIReject(r)

SpecChat == Init /\ [][NextChat]_vars

\* Chat requests that write transcripts, and the history query, on a store
\* that already holds MaxPre entries.
NextHistory ==
  \/ \E r \in Reqs, message \in HistoryMessages : ChatReceive(r, message)
  \/ \E r \in Reqs, result \in HistoryResults : GenResolve(r, result)
  \/ \E r \in Reqs : GenReject(r)
  \/ \E r \in Reqs : SaveResolve(r)
  \/ \E r \in Reqs : SaveReject(r)
  \/ \E first \in BOOLEAN : ChatHistoryFind(first)
  \/ ChatHistoryResolve
  \/ ChatHistoryReject
  \/ Tick

SpecHistory == InitHistory /\ [][NextHistory]_vars

\* The classification and routing of one request, over all RouteMessages.
NextRoute == \E message \in RouteMessages : ChatReceive(1, message)

SpecRoute == InitRoute /\ [][NextRoute]_vars


(***************************************************************************)
(* Vocabulary of the properties.  The keyword tests are stated here by     *)
(* positions in the message, apart from the handlers' own search.          *)
(***************************************************************************)
\* a is the letter b, in either case (b is a character of a keyword).
\* KELVIN SIGN is a capital of k.  I WITH DOT ABOVE is no capital of i: its
\* small form is i followed by COMBINING DOT ABOVE, and no keyword ends in i.
CasePairs ==
  { <<UpperCase[i], LowerCase[i]>> : i \in 1..Len(UpperCase) } \cup { <<"U+212A", "k">> }

SameLetter(a, b) == a = b \/ <<a, b>> \in CasePairs

ContainsIgnoringCase(s, k) ==
  \E i \in 1..(Len(s) - Len(k) + 1) : \A j \in 1..Len(k) : SameLetter(s[i + j - 1], k[j])

HasDomainKeyword(s) == \E i \in 1..Len(carKeywords) : ContainsIgnoringCase(s, carKeywords[i])

HasServiceKeyword(s) ==
  \E i \in 1..Len(mechanicKeywords) : ContainsIgnoringCase(s, mechanicKeywords[i])

\* a message the validation step of the design accepts: a non-empty string
ValidMessage(m) == m.type = "string" /\ m.str # <<>>

WhitespaceOnly(m) ==
  m.type = "string" /\ m.str # <<>> /\ \A i \in 1..Len(m.str) : m.str[i] \in WhiteSpace

\* the routing decision the decision table gives a valid message
Decision(m) ==
  IF ~HasDomainKeyword(m.str) THEN "Reject"
  ELSE IF HasServiceKeyword(m.str) THEN "Canned"
  ELSE "Delegate"

\* the decision of every message of the specifications, "Invalid" for the
\* messages that are not valid
RoutedTo ==
  [ m \in Messages \cup RouteMessages \cup HistoryMessages |->
      IF ValidMessage(m) THEN Decision(m) ELSE "Invalid" ]

DelegateRouted(m) == RoutedTo[m] = "Delegate"

Received(r) == reqs[r].pc # "idle"
Done(r) == reqs[r].pc = "done"

Envelope(status, reply) == [status |-> status, body |-> "{reply}", reply |-> reply]

\* the TranscriptEntries request r has produced
EntriesOf(r) == { i \in 1..Len(chats) : chats[i].id = r }

\* what the handler did with request r, as seen from outside
Outcome(r) ==
  IF reqs[r].genCalls > 0 THEN "Delegate"
  ELSE IF reqs[r].responses = <<Envelope(200, CarOnly)>> THEN "Reject"
  ELSE IF reqs[r].responses = <<Envelope(200, Recommend)>> THEN "Canned"
  ELSE "other"

(***************************************************************************)
(* C1.  As claimed: once a request is finished, a TranscriptEntry exists   *)
(* for it iff it was routed to Delegate and its generation call succeeded. *)
(* The handler of booking.js violates this when the save fails.            *)
(***************************************************************************)
C1_EntryIffDelegatedAndGenerated ==
  \A r \in DOMAIN reqs :
    server = "booking.js" /\ Done(r) =>
      (EntriesOf(r) # {} <=>
         DelegateRouted(reqs[r].message) /\ reqs[r].genResult = "ok")

(***************************************************************************)
(* C1, amended.  A TranscriptEntry exists for a request iff the request    *)
(* was routed to Delegate, its generation call succeeded and its           *)
(* TranscriptStore write succeeded; then there is exactly one.  Rejected,  *)
(* canned, invalid and failed-generation requests never have one.          *)
(***************************************************************************)
C1_EntryIffDelegatedGeneratedAndSaved ==
  \A r \in DOMAIN reqs :
    /\ EntriesOf(r) # {} <=>
         /\ DelegateRouted(reqs[r].message)
         /\ reqs[r].genResult = "ok"
         /\ reqs[r].saveResult = "ok"
    /\ Cardinality(EntriesOf(r)) <= 1

C1_Witness ==
  /\ server = "booking.js"
  /\ \E r1, r2 \in DOMAIN reqs :
       /\ Done(r1) /\ EntriesOf(r1) # {}
       /\ Done(r2) /\ DelegateRouted(reqs[r2].message)
       /\ reqs[r2].genResult = "ok" /\ reqs[r2].saveResult = "failed"
       /\ EntriesOf(r2) = {}

(***************************************************************************)
(* C2.  As claimed: when the generation call of a Delegate-routed request  *)
(* succeeded and the TranscriptStore write failed, the response is still   *)
(* 200 with the generated reply.                                           *)
(***************************************************************************)
C2_SaveFailureKeepsReply ==
  \A r \in DOMAIN reqs :
    /\ server = "booking.js" /\ Done(r)
    /\ DelegateRouted(reqs[r].message)
    /\ reqs[r].genResult = "ok" /\ reqs[r].saveResult = "failed"
    => reqs[r].responses = <<Envelope(200, reqs[r].reply.str)>>

(***************************************************************************)
(* C3.  As claimed: a request whose message is absent, not a string, empty *)
(* or whitespace-only is answered 400 "Message is required.", the handler  *)
(* stops there, and neither the generation service nor the TranscriptStore *)
(* is called.                                                              *)
(***************************************************************************)
C3_InvalidMessageIs400 ==
  \A r \in DOMAIN reqs :
    Received(r) /\ (~ValidMessage(reqs[r].message) \/ WhitespaceOnly(reqs[r].message)) =>
      /\ Done(r)
      /\ reqs[r].responses = <<Envelope(400, MessageRequired)>>
      /\ ~reqs[r].threw
      /\ reqs[r].genCalls = 0
      /\ reqs[r].saveCalls = 0

(***************************************************************************)
(* C4.  For every valid message the handler of booking.js takes the        *)
(* outcome of the ordered decision table: Reject (200, the out-of-domain   *)
(* reply) iff the message holds no domain keyword in any casing, Canned    *)
(* (200, the recommendation) iff it holds a domain keyword and a           *)
(* service-intent keyword, Delegate (the generation service is called with *)
(* the wrapped message) iff it holds a domain keyword and no               *)
(* service-intent keyword.                                                 *)
(***************************************************************************)
C4_RoutingFollowsDecisionTable ==
  \A r \in DOMAIN reqs :
    Received(r) /\ ValidMessage(reqs[r].message) =>
      /\ Outcome(r) = RoutedTo[reqs[r].message]
      /\ Outcome(r) \in {"Reject", "Canned"} => Done(r) /\ ~reqs[r].threw
      /\ Outcome(r) = "Delegate" =>
           /\ reqs[r].prompt = PromptPrefix \o reqs[r].message.str
           /\ reqs[r].pc = "awaitGen" => reqs[r].responses = <<>>

C4_Witness ==
  \E r \in DOMAIN reqs :
    /\ reqs[r].message = String(<<"F","I","X","C","a","R">>)
    /\ reqs[r].responses = <<Envelope(200, Recommend)>>

(***************************************************************************)
(* C5.  As claimed: a request makes at most one call to the generation     *)
(* service and at most one TranscriptStore write, and the generation       *)
(* service is called only for a request routed to Delegate.  The handler   *)
(* of server.js calls it for every message that is not falsy.              *)
(***************************************************************************)
C5_GenerationOnlyOnDelegate ==
  \A r \in DOMAIN reqs :
    /\ reqs[r].genCalls <= 1
    /\ reqs[r].saveCalls <= 1
    /\ reqs[r].genCalls > 0 => DelegateRouted(reqs[r].message)

(***************************************************************************)
(* C6.  When the generation call of a Delegate-routed request fails, the   *)
(* response is 500 with the "Error connecting to ..." reply of the         *)
(* handler, no TranscriptStore write is attempted and no entry exists, and *)
(* exactly one generation call was made.                                   *)
(***************************************************************************)
C6_GenerationFailureIs500 ==
  \A r \in DOMAIN reqs :
    DelegateRouted(reqs[r].message) /\ reqs[r].genResult = "failed" =>
      /\ Done(r)
      /\ reqs[r].responses \in {<<Envelope(500, GeminiError)>>, <<Envelope(500, OpenAIError)>>}
      /\ reqs[r].saveCalls = 0
      /\ EntriesOf(r) = {}
      /\ reqs[r].genCalls = 1

C6_Witness ==
  \E r \in DOMAIN reqs :
    /\ server = "booking.js"
    /\ DelegateRouted(reqs[r].message)
    /\ reqs[r].genResult = "failed"
    /\ reqs[r].responses = <<Envelope(500, GeminiError)>>

(***************************************************************************)
(* C7.  As claimed: the handler never responds twice, and when it has      *)
(* ended it has sent exactly one envelope { reply } with status 200, 400   *)
(* or 500, whatever the body.  The handler of booking.js ends with an      *)
(* uncaught TypeError on a message that is neither falsy nor a string.     *)
(***************************************************************************)
C7_ExactlyOneEnvelope ==
  \A r \in DOMAIN reqs :
    /\ Len(reqs[r].responses) <= 1
    /\ server = "booking.js" /\ Done(r) =>
         /\ Len(reqs[r].responses) = 1
         /\ reqs[r].responses[1].body = "{reply}"
         /\ reqs[r].responses[1].status \in {200, 400, 500}

(***************************************************************************)
(* C8.  As claimed: a Delegate-routed request whose generation call        *)
(* succeeded is answered 200 with the first candidate's trimmed text, or   *)
(* with the fallback when there is no candidate text, and exactly one      *)
(* TranscriptEntry holds the original message and that reply.  The handler *)
(* of booking.js answers 500 and leaves no entry when the save fails (C2). *)
(***************************************************************************)
C8_GeneratedReplyAndEntry ==
  \A r \in DOMAIN reqs :
    /\ server = "booking.js" /\ Done(r)
    /\ DelegateRouted(reqs[r].message) /\ reqs[r].genResult = "ok"
    => LET c     == reqs[r].candidate
           reply == IF c.type = "string" /\ trim(c.str) # <<>> THEN trim(c.str) ELSE Fallback
       IN /\ reqs[r].responses = <<Envelope(200, reply)>>
          /\ Cardinality(EntriesOf(r)) = 1
          /\ \A i \in EntriesOf(r) :
               /\ chats[i].userMessage = reqs[r].message.str
               /\ chats[i].botResponse = reply

(***************************************************************************)
(* C9.  A step that changes history is a step of the history handler.  The *)
(* step to awaitFind evaluates the query on chats, the store as it is      *)
(* then; the step to status 200 answers with what the query found, and     *)
(* requests that save in between are not in the answer.                    *)
(***************************************************************************)
Evaluated == history' # history /\ history'.pc = "awaitFind"

Answered == history' # history /\ history'.status = 200

\* at most HistoryLimit entries, all of them distinct entries of the store
AtMostLimit(h, docs) ==
  /\ Len(h.chatHistory) <= HistoryLimit
  /\ Len(h.chatHistory) = (IF Len(docs) < HistoryLimit THEN Len(docs) ELSE HistoryLimit)
  /\ \A i \in 1..Len(h.chatHistory) : \E j \in 1..Len(docs) : docs[j] = h.chatHistory[i]
  /\ \A i, j \in 1..Len(h.chatHistory) : i # j => h.chatHistory[i].id # h.chatHistory[j].id

\* no entry left out is newer than an entry returned
MostRecent(h, docs) ==
  \A j \in 1..Len(docs) :
    (\A i \in 1..Len(h.chatHistory) : h.chatHistory[i].id # docs[j].id) =>
      \A i \in 1..Len(h.chatHistory) : h.chatHistory[i].timestamp >= docs[j].timestamp

\* each entry reshaped to { user, bot, time }
Reshaped(h) ==
  /\ Len(h.formattedHistory) = Len(h.chatHistory)
  /\ \A i \in 1..Len(h.chatHistory) :
       /\ DOMAIN h.formattedHistory[i] = {"user", "bot", "time"}
       /\ h.formattedHistory[i].user = h.chatHistory[i].userMessage
       /\ h.formattedHistory[i].bot = h.chatHistory[i].botResponse
       /\ h.formattedHistory[i].time * MsPerSecond <= h.chatHistory[i].timestamp
       /\ h.chatHistory[i].timestamp < (h.formattedHistory[i].time + 1) * MsPerSecond

StrictlyDescending(h) ==
  \A i, j \in 1..Len(h.chatHistory) :
    i < j => h.chatHistory[i].timestamp > h.chatHistory[j].timestamp

NeverAscending(h) ==
  \A i, j \in 1..Len(h.chatHistory) :
    i < j => h.chatHistory[i].timestamp >= h.chatHistory[j].timestamp

(***************************************************************************)
(* C9.  As claimed: every successful history query returns at most 20      *)
(* entries, the most recent ones of the store the query is evaluated on,   *)
(* sorted strictly by timestamp descending, each reshaped to               *)
(* { user, bot, time }.  Two entries written in the same millisecond have  *)
(* equal timestamps.                                                       *)
(***************************************************************************)
C9_HistoryStrictlyDescending ==
  [][/\ Evaluated => /\ AtMostLimit(history', chats)
                     /\ MostRecent(history', chats)
     /\ Answered => /\ history'.chatHistory = history.chatHistory
                    /\ Len(history'.chatHistory) <= HistoryLimit
                    /\ StrictlyDescending(history')
                    /\ Reshaped(history')]_vars

(***************************************************************************)
(* C9, amended.  Every successful history query returns at most 20         *)
(* entries, the most recent ones of the store the query is evaluated on,   *)
(* sorted by timestamp so that no entry is followed by a newer one         *)
(* (entries of equal timestamp come in either order), each reshaped to     *)
(* { user, bot, time }.                                                    *)
(***************************************************************************)
C9_HistoryNeverAscending ==
  [][/\ Evaluated => /\ AtMostLimit(history', chats)
                     /\ MostRecent(history', chats)
     /\ Answered => /\ history'.chatHistory = history.chatHistory
                    /\ Len(history'.chatHistory) <= HistoryLimit
                    /\ NeverAscending(history')
                    /\ Reshaped(history')]_vars

\* A query that leaves out the oldest entry and returns the entries of two
\* concurrent requests that share a timestamp.
C9_Witness ==
  /\ history.status = 200
  /\ Len(history.chatHistory) = HistoryLimit
  /\ \A i \in 1..Len(history.chatHistory) : history.chatHistory[i].id # 0 - 1
  /\ \E i \in 1..(Len(history.chatHistory) - 1) :
       /\ history.chatHistory[i].id > 0
       /\ history.chatHistory[i + 1].id > 0
       /\ history.chatHistory[i].timestamp = history.chatHistory[i + 1].timestamp
  /\ \E i \in 1..(Len(history.chatHistory) - 1) :
       history.chatHistory[i].timestamp > history.chatHistory[i + 1].timestamp

(***************************************************************************)
(* C10.  In the handler of booking.js a 200 response with a generated      *)
(* reply is sent only after the TranscriptStore write has succeeded: once  *)
(* such a response is sent, a TranscriptEntry holding the request's        *)
(* message and that reply is in the store.                                 *)
(***************************************************************************)
C10_EntryBeforeReply ==
  \A r \in DOMAIN reqs :
    \A k \in 1..Len(reqs[r].responses) :
      /\ server = "booking.js"
      /\ reqs[r].genCalls > 0
      /\ reqs[r].responses[k].status = 200
      => \E i \in EntriesOf(r) :
           /\ chats[i].userMessage = reqs[r].message.str
           /\ chats[i].botResponse = reqs[r].responses[k].reply

C10_Witness ==
  \E r \in DOMAIN reqs :
    /\ server = "booking.js"
    /\ reqs[r].genCalls > 0
    /\ reqs[r].responses = <<Envelope(200, <<"C","h","e","c","k"," ","i","t",".">>)>>
    /\ EntriesOf(r) # {}

=============================================================================
